---- MODULE Spec2Model ----
(***************************************************************************)
(* Transform-and-load pipeline of mlb_pipeline                             *)
(* (src/transform_load_mlb_data.py): entity resolution, bulk stat loads,   *)
(* the processed_files ledger and the orchestrating loop of main().        *)
(***************************************************************************)
EXTENDS Integers, Sequences, FiniteSets, TLC

\* ------------------------------------------------------------------------
\* Bounds of the model
\* ------------------------------------------------------------------------
\* number of units the orchestrator runs of a behaviour handle in total
MaxHandled == 3
\* number of storage / filesystem errors injected over a behaviour
MaxFaults == 1
\* number of rows of a ledger handed to the overlap query on its own
MaxLedger == 2
\* largest value of a counting stat of a batting line
MaxCount == 4

\* ------------------------------------------------------------------------
\* Values
\* ------------------------------------------------------------------------
\* Python None / SQL NULL
None == 0 - 1
\* "no unit is being handled"
NoUnit == "-"

Min(S) == CHOOSE x \in S : \A y \in S : x <= y

\* Text is a sequence of code points.  SQLite compares TEXT values with the
\* BINARY collation: byte by byte of their UTF-8 form, which is the order of
\* the code points, a proper prefix being the smaller.
TextLE(a, b) ==
    LET n == IF Len(a) <= Len(b) THEN Len(a) ELSE Len(b)
        diff == {i \in 1..n : a[i] # b[i]}
    IN  IF diff = {} THEN Len(a) <= Len(b) ELSE a[Min(diff)] < b[Min(diff)]

\* the two decimal digits a b as text
D(a, b) == <<48 + a, 48 + b>>
\* "mlb", "raw", "_", ".json"
MLB == <<109, 108, 98>>
RAW == <<114, 97, 119>>
Underscore == 95
DotJson == <<46, 106, 115, 111, 110>>

\* ------------------------------------------------------------------------
\* The ingestion units the runs are fed with: file name and JSON content.
\* A file name is the text os.listdir returns.
\* ------------------------------------------------------------------------
Units == {"U1", "U2", "U3", "U4", "U5"}

\* mlb_raw_<start>_<end>_<stamp>.json
RawName(start, end, stamp) ==
    MLB \o <<Underscore>> \o RAW \o <<Underscore>> \o start \o <<Underscore>>
        \o end \o <<Underscore>> \o stamp \o DotJson

FileName(u) ==
    CASE u = "U1" -> RawName(D(0,1), D(0,7), <<97>>)
      [] u = "U2" -> RawName(D(1,0), D(0,8), <<98>>)
      [] u = "U3" -> <<110, 111, 116, 101, 115>> \o DotJson
      [] u = "U4" -> RawName(D(0,5), D(1,0), <<99>>)
      [] u = "U5" -> RawName(D(1,1), D(1,2), <<100>>)

\* A name as the JSON gives it: <<s>> is the string s, <<>> is None (the key
\* is missing)
NoName == <<>>
Name(s) == <<s>>

\* a team of the teams section: its id and name
Team(i, n) == [id |-> i, name |-> n]
\* a key of the rosters mapping: digits (an external team id) or a team name
ByApi(i) == [isdigit |-> TRUE, int |-> i, name |-> ""]
ByName(n) == [isdigit |-> FALSE, int |-> None, name |-> n]
\* a roster entry: person.id and person.fullName
Person(i, n) == [id |-> i, fullName |-> n]
Roster(k, ps) == [team_key |-> k, roster |-> ps]
Game(g, h, a) == [game_id |-> g, home_team_id |-> h, away_team_id |-> a]
Stat(g, p) == [game_id |-> g, player_id |-> p]

Data(u) ==
    CASE u = "U1" ->
           [teams |-> <<Team(10, Name("T10")), Team(20, Name("T20"))>>,
            rosters |-> <<Roster(ByName("T10"), <<Person(1, Name("P1"))>>)>>,
            games |-> <<Game(100, 10, 20)>>,
            batter_stats |-> <<Stat(100, 1)>>,
            pitcher_stats |-> <<Stat(100, 1), Stat(100, 1)>>]
      [] u = "U2" ->
           [teams |-> <<Team(20, Name("T20"))>>,
            rosters |-> <<Roster(ByApi(20), <<Person(1, Name("P1"))>>)>>,
            games |-> <<Game(101, 10, 20), Game(102, 20, 20)>>,
            batter_stats |-> <<Stat(101, 1), Stat(102, 1), Stat(102, 2)>>,
            pitcher_stats |-> <<>>]
      [] u = "U3" ->
           [teams |-> <<Team(20, Name("T20"))>>,
            rosters |-> <<>>,
            games |-> <<>>,
            batter_stats |-> <<>>,
            pitcher_stats |-> <<>>]
      [] u = "U4" ->
           [teams |-> <<Team(30, Name("T30"))>>,
            rosters |-> <<>>,
            games |-> <<>>,
            batter_stats |-> <<>>,
            pitcher_stats |-> <<>>]
      [] u = "U5" ->
           [teams |-> <<Team(20, Name("T20")), Team(None, Name("TX"))>>,
            rosters |-> <<Roster(ByApi(20), <<Person(1, Name("P1"))>>)>>,
            games |-> <<Game(103, 20, 20)>>,
            batter_stats |-> <<Stat(103, 1)>>,
            pitcher_stats |-> <<>>]

\* ------------------------------------------------------------------------
\* The store: every table is its rows in rowid order and its AUTOINCREMENT
\* counter (sqlite_sequence).
\* ------------------------------------------------------------------------
EmptyTable == [rows |-> <<>>, seq |-> 0]

create_tables ==
    [teams |-> EmptyTable, players |-> EmptyTable, games |-> EmptyTable,
     batter_stats |-> EmptyTable, pitcher_stats |-> EmptyTable,
     processed_files |-> EmptyTable]

\* ------------------------------------------------------------------------
\* Entity resolution: INSERT OR IGNORE, commit, SELECT.
\* fault = "pre":  the storage fails before the insert is committed
\*         "post": the storage fails after the commit (the SELECT raises)
\* The result carries the table, the id returned (None: no row was found)
\* and whether the call raised.
\* ------------------------------------------------------------------------
\* get_or_create_team with a plain INSERT into a table that lacks the
\* UNIQUE constraint on api_team_id: every call adds a row
get_or_create_team_NoUnique(tbl, api_team_id, name, fault) ==
    LET new == [team_id |-> tbl.seq + 1, api_team_id |-> api_team_id, name |-> name]
        ins == [rows |-> Append(tbl.rows, new), seq |-> tbl.seq + 1]
        sel == {i \in 1..Len(ins.rows) : ins.rows[i].api_team_id = api_team_id}
        row == IF api_team_id = None \/ sel = {} THEN None
               ELSE ins.rows[Min(sel)].team_id
    IN  IF fault = "pre" THEN [tbl |-> tbl, id |-> None, raised |-> TRUE]
        ELSE IF fault = "post" THEN [tbl |-> ins, id |-> None, raised |-> TRUE]
        ELSE [tbl |-> ins, id |-> row, raised |-> row = None]

\* INSERT into a teams table that has no UNIQUE constraint on api_team_id
InsertOrIgnoreTeam_NoConstraint(tbl, api_team_id, name) ==
    [rows |-> Append(tbl.rows, [team_id |-> tbl.seq + 1,
                                api_team_id |-> api_team_id, name |-> name]),
     seq |-> tbl.seq + 1]

\* INSERT OR IGNORE INTO teams (api_team_id, name, ...): the row is ignored
\* when it breaks a constraint, that is when a row with that api_team_id
\* exists (UNIQUE; a NULL never conflicts) or the name is NULL (NOT NULL);
\* the AUTOINCREMENT counter moves either way
InsertOrIgnoreTeam(tbl, api_team_id, name) ==
    LET hit == {i \in 1..Len(tbl.rows) : tbl.rows[i].api_team_id = api_team_id}
        ignored == (api_team_id # None /\ hit # {}) \/ name = NoName
        new == [team_id |-> tbl.seq + 1, api_team_id |-> api_team_id, name |-> name]
    IN  [rows |-> IF ignored THEN tbl.rows ELSE Append(tbl.rows, new),
         seq |-> tbl.seq + 1]

\* SELECT team_id FROM teams WHERE api_team_id = ?, fetchone: None when no
\* row compares equal (NULL equals nothing)
SelectTeamId(tbl, api_team_id) ==
    LET sel == {i \in 1..Len(tbl.rows) : tbl.rows[i].api_team_id = api_team_id}
    IN  IF api_team_id = None \/ sel = {} THEN None
        ELSE tbl.rows[Min(sel)].team_id

\* get_or_create_team returning None, in place of raising, when the SELECT
\* finds no row
get_or_create_team_ReturnNone(tbl, api_team_id, name, fault) ==
    LET ins == InsertOrIgnoreTeam(tbl, api_team_id, name)
        row == SelectTeamId(ins, api_team_id)
    IN  IF fault = "pre" THEN [tbl |-> tbl, id |-> None, raised |-> TRUE]
        ELSE IF fault = "post" THEN [tbl |-> ins, id |-> None, raised |-> TRUE]
        ELSE [tbl |-> ins, id |-> row, raised |-> FALSE]

get_or_create_team(tbl, api_team_id, name, fault) ==
    LET ins == InsertOrIgnoreTeam(tbl, api_team_id, name)
        row == SelectTeamId(ins, api_team_id)
    IN  IF fault = "pre" THEN [tbl |-> tbl, id |-> None, raised |-> TRUE]
        ELSE IF fault = "post" THEN [tbl |-> ins, id |-> None, raised |-> TRUE]
        ELSE [tbl |-> ins, id |-> row, raised |-> row = None]

\* get_or_create_player as an upsert: a player that exists gets the team of
\* this call (ON CONFLICT DO UPDATE SET team_id)
get_or_create_player_Upsert(tbl, api_player_id, name, team_id, fault) ==
    LET hit == {i \in 1..Len(tbl.rows) : tbl.rows[i].api_player_id = api_player_id}
        ignored == (api_player_id # None /\ hit # {}) \/ name = NoName
        new == [player_id |-> tbl.seq + 1, api_player_id |-> api_player_id,
                name |-> name, team_id |-> team_id]
        ins == [rows |-> IF ignored
                         THEN [i \in 1..Len(tbl.rows) |->
                                 IF i \in hit
                                 THEN [tbl.rows[i] EXCEPT !.team_id = team_id]
                                 ELSE tbl.rows[i]]
                         ELSE Append(tbl.rows, new),
                seq |-> tbl.seq + 1]
        sel == {i \in 1..Len(ins.rows) : ins.rows[i].api_player_id = api_player_id}
        row == IF api_player_id = None \/ sel = {} THEN None
               ELSE ins.rows[Min(sel)].player_id
    IN  IF fault = "pre" THEN [tbl |-> tbl, id |-> None, raised |-> TRUE]
        ELSE IF fault = "post" THEN [tbl |-> ins, id |-> None, raised |-> TRUE]
        ELSE [tbl |-> ins, id |-> row, raised |-> row = None]

\* players.name is NOT NULL: an insert without a name is ignored as one of
\* a known api_player_id is
get_or_create_player(tbl, api_player_id, name, team_id, fault) ==
    LET hit == {i \in 1..Len(tbl.rows) : tbl.rows[i].api_player_id = api_player_id}
        ignored == (api_player_id # None /\ hit # {}) \/ name = NoName
        new == [player_id |-> tbl.seq + 1, api_player_id |-> api_player_id,
                name |-> name, team_id |-> team_id]
        ins == [rows |-> IF ignored THEN tbl.rows ELSE Append(tbl.rows, new),
                seq |-> tbl.seq + 1]
        sel == {i \in 1..Len(ins.rows) : ins.rows[i].api_player_id = api_player_id}
        row == IF api_player_id = None \/ sel = {} THEN None
               ELSE ins.rows[Min(sel)].player_id
    IN  IF fault = "pre" THEN [tbl |-> tbl, id |-> None, raised |-> TRUE]
        ELSE IF fault = "post" THEN [tbl |-> ins, id |-> None, raised |-> TRUE]
        ELSE [tbl |-> ins, id |-> row, raised |-> row = None]

get_or_create_game(tbl, api_game_id, home_team_id, away_team_id, fault) ==
    LET hit == {i \in 1..Len(tbl.rows) : tbl.rows[i].api_game_id = api_game_id}
        ignored == api_game_id # None /\ hit # {}
        new == [game_id |-> tbl.seq + 1, api_game_id |-> api_game_id,
                home_team_id |-> home_team_id, away_team_id |-> away_team_id]
        ins == [rows |-> IF ignored THEN tbl.rows ELSE Append(tbl.rows, new),
                seq |-> tbl.seq + 1]
        sel == {i \in 1..Len(ins.rows) : ins.rows[i].api_game_id = api_game_id}
        row == IF api_game_id = None \/ sel = {} THEN None
               ELSE ins.rows[Min(sel)].game_id
    IN  IF fault = "pre" THEN [tbl |-> tbl, id |-> None, raised |-> TRUE]
        ELSE IF fault = "post" THEN [tbl |-> ins, id |-> None, raised |-> TRUE]
        ELSE [tbl |-> ins, id |-> row, raised |-> row = None]

\* the rows data[i..] inserted one after the other
RECURSIVE AppendStats(_, _, _)
AppendStats(tbl, data, i) ==
    IF i > Len(data) THEN tbl
    ELSE AppendStats([rows |-> Append(tbl.rows,
                                 [stat_id |-> tbl.seq + 1,
                                  game_id |-> data[i].game_id,
                                  player_id |-> data[i].player_id]),
                      seq |-> tbl.seq + 1], data, i + 1)

\* bulk_insert_stats on a connection in autocommit mode: every row is
\* committed as it is inserted
bulk_insert_stats_Autocommit(tbl, data, fault) ==
    LET n == IF fault = "pre" THEN 0
             ELSE IF fault = "post" THEN Len(data) - 1
             ELSE Len(data)
    IN  IF data = <<>> THEN [tbl |-> tbl, committed |-> TRUE, raised |-> FALSE]
        ELSE [tbl |-> AppendStats(tbl, SubSeq(data, 1, n), 1),
              committed |-> TRUE, raised |-> fault # "none"]

\* executemany of a plain INSERT, then commit.  The rows go into the
\* connection's open transaction one after the other; a storage error at the
\* first row ("pre") or at the last one ("post") leaves the rows inserted so
\* far uncommitted.  The result is the table as the connection sees it and
\* whether that was committed.  With no row to insert no statement runs and
\* the commit has nothing to do.
bulk_insert_stats(tbl, data, fault) ==
    LET n == IF fault = "pre" THEN 0
             ELSE IF fault = "post" THEN Len(data) - 1
             ELSE Len(data)
    IN  IF data = <<>> THEN [tbl |-> tbl, committed |-> TRUE, raised |-> FALSE]
        ELSE [tbl |-> AppendStats(tbl, SubSeq(data, 1, n), 1),
              committed |-> fault = "none", raised |-> fault # "none"]

\* dict.get(k) and dict[k] = v
Get(m, k) == IF k \in DOMAIN m THEN m[k] ELSE None
Put(m, k, v) == [x \in DOMAIN m \cup {k} |-> IF x = k THEN v ELSE m[x]]

\* The fault met by the k-th storage call of a load under fault code f:
\* code 2k fails the call before its commit, code 2k+1 after it.  While the
\* orchestrator's own connection holds the write lock every write of the
\* loading connection fails ("database is locked").
FaultOf(f, k, locked) ==
    IF locked THEN "pre"
    ELSE IF f = 2 * k THEN "pre"
    ELSE IF f = 2 * k + 1 THEN "post"
    ELSE "none"

\* Python truthiness of an id
Truthy(x) == x # None /\ x # 0

\* ------------------------------------------------------------------------
\* transform_and_load.  The loops thread the state s of the call: the
\* store, the number n of storage calls made, the mappings, whether an
\* exception is propagating (err), the resolver results (ret) and what the
\* call logged (log): the outcome of each bulk insert, and whether a
\* resolver raised "Error retrieving ..." for want of a row (norow).  The connection is closed in the finally clause, which
\* discards a transaction left open.
\* ------------------------------------------------------------------------
RECURSIVE ProcessTeams(_, _, _, _)
ProcessTeams(s, teams, i, f) ==
    IF s.err \/ i > Len(teams) THEN s
    ELSE LET team == teams[i]
             r == get_or_create_team(s.db.teams, team.id, team.name,
                                     FaultOf(f, s.n + 1, s.locked))
             s1 == [s EXCEPT !.db.teams = r.tbl, !.n = s.n + 1]
         IN  IF r.raised
             THEN [s1 EXCEPT !.err = TRUE,
                             !.log.norow = (FaultOf(f, s.n + 1, s.locked) = "none")]
             ELSE ProcessTeams(
                    [s1 EXCEPT !.team_mapping_by_api = Put(@, team.id, r.id),
                               !.team_mapping_by_name = Put(@, team.name, r.id),
                               !.ret = @ \cup {<<"team", team.id, r.id>>}],
                    teams, i + 1, f)

RECURSIVE ProcessRoster(_, _, _, _, _)
ProcessRoster(s, roster, db_team_id, j, f) ==
    IF s.err \/ j > Len(roster) THEN s
    ELSE LET api_player_id == roster[j].id
             full_name == roster[j].fullName
             r == get_or_create_player(s.db.players, api_player_id, full_name,
                                       db_team_id,
                                       FaultOf(f, s.n + 1, s.locked))
             s1 == [s EXCEPT !.db.players = r.tbl, !.n = s.n + 1]
         IN  IF r.raised
             THEN [s1 EXCEPT !.err = TRUE,
                             !.log.norow = (FaultOf(f, s.n + 1, s.locked) = "none")]
             ELSE ProcessRoster(
                    [s1 EXCEPT !.player_mapping = Put(@, api_player_id, r.id),
                               !.ret = @ \cup {<<"player", api_player_id, r.id>>}],
                    roster, db_team_id, j + 1, f)

RECURSIVE ProcessRosters(_, _, _, _)
ProcessRosters(s, rosters, i, f) ==
    IF s.err \/ i > Len(rosters) THEN s
    ELSE LET team_key == rosters[i].team_key
             db_team_id == IF team_key.isdigit
                           THEN Get(s.team_mapping_by_api, team_key.int)
                           ELSE Get(s.team_mapping_by_name, Name(team_key.name))
         IN  IF db_team_id = None THEN ProcessRosters(s, rosters, i + 1, f)
             ELSE ProcessRosters(
                    ProcessRoster(s, rosters[i].roster, db_team_id, 1, f),
                    rosters, i + 1, f)

\* the games loop leaving at the first game with a team it has no mapping
\* for (break in place of continue)
RECURSIVE ProcessGames_Break(_, _, _, _)
ProcessGames_Break(s, games, i, f) ==
    IF s.err \/ i > Len(games) THEN s
    ELSE LET game == games[i]
             home_team_db_id == Get(s.team_mapping_by_api, game.home_team_id)
             away_team_db_id == Get(s.team_mapping_by_api, game.away_team_id)
             r == get_or_create_game(s.db.games, game.game_id, home_team_db_id,
                                     away_team_db_id,
                                     FaultOf(f, s.n + 1, s.locked))
             s1 == [s EXCEPT !.db.games = r.tbl, !.n = s.n + 1]
         IN  IF home_team_db_id = None \/ away_team_db_id = None
             THEN s
             ELSE IF r.raised
             THEN [s1 EXCEPT !.err = TRUE,
                             !.log.norow = (FaultOf(f, s.n + 1, s.locked) = "none")]
             ELSE ProcessGames_Break(
                    [s1 EXCEPT !.game_mapping = Put(@, game.game_id, r.id),
                               !.ret = @ \cup {<<"game", game.game_id, r.id>>}],
                    games, i + 1, f)

\* the games loop looking a team up in the teams table when the unit's
\* mapping does not hold it
RECURSIVE ProcessGames_StoreLookup(_, _, _, _)
ProcessGames_StoreLookup(s, games, i, f) ==
    IF s.err \/ i > Len(games) THEN s
    ELSE LET game == games[i]
             home_mapped == Get(s.team_mapping_by_api, game.home_team_id)
             away_mapped == Get(s.team_mapping_by_api, game.away_team_id)
             home_team_db_id == IF home_mapped # None THEN home_mapped
                                ELSE SelectTeamId(s.db.teams, game.home_team_id)
             away_team_db_id == IF away_mapped # None THEN away_mapped
                                ELSE SelectTeamId(s.db.teams, game.away_team_id)
             r == get_or_create_game(s.db.games, game.game_id, home_team_db_id,
                                     away_team_db_id,
                                     FaultOf(f, s.n + 1, s.locked))
             s1 == [s EXCEPT !.db.games = r.tbl, !.n = s.n + 1]
         IN  IF home_team_db_id = None \/ away_team_db_id = None
             THEN ProcessGames_StoreLookup(s, games, i + 1, f)
             ELSE IF r.raised
             THEN [s1 EXCEPT !.err = TRUE,
                             !.log.norow = (FaultOf(f, s.n + 1, s.locked) = "none")]
             ELSE ProcessGames_StoreLookup(
                    [s1 EXCEPT !.game_mapping = Put(@, game.game_id, r.id),
                               !.ret = @ \cup {<<"game", game.game_id, r.id>>}],
                    games, i + 1, f)

RECURSIVE ProcessGames(_, _, _, _)
ProcessGames(s, games, i, f) ==
    IF s.err \/ i > Len(games) THEN s
    ELSE LET game == games[i]
             home_team_db_id == Get(s.team_mapping_by_api, game.home_team_id)
             away_team_db_id == Get(s.team_mapping_by_api, game.away_team_id)
             r == get_or_create_game(s.db.games, game.game_id, home_team_db_id,
                                     away_team_db_id,
                                     FaultOf(f, s.n + 1, s.locked))
             s1 == [s EXCEPT !.db.games = r.tbl, !.n = s.n + 1]
         IN  IF home_team_db_id = None \/ away_team_db_id = None
             THEN ProcessGames(s, games, i + 1, f)
             ELSE IF r.raised
             THEN [s1 EXCEPT !.err = TRUE,
                             !.log.norow = (FaultOf(f, s.n + 1, s.locked) = "none")]
             ELSE ProcessGames(
                    [s1 EXCEPT !.game_mapping = Put(@, game.game_id, r.id),
                               !.ret = @ \cup {<<"game", game.game_id, r.id>>}],
                    games, i + 1, f)

\* the stat loop without its test of local_game_id and local_player_id:
\* every stat record becomes a row, with None for an id it has no mapping for
RECURSIVE StatRows_NoFilter(_, _, _, _)
StatRows_NoFilter(stats, game_mapping, player_mapping, i) ==
    IF i > Len(stats) THEN <<>>
    ELSE <<[game_id |-> Get(game_mapping, stats[i].game_id),
            player_id |-> Get(player_mapping, stats[i].player_id)]>>
         \o StatRows_NoFilter(stats, game_mapping, player_mapping, i + 1)

\* the rows handed to the bulk insert: the stat records whose game and
\* player are both in the unit's mappings, with their internal ids
RECURSIVE StatRows(_, _, _, _)
StatRows(stats, game_mapping, player_mapping, i) ==
    IF i > Len(stats) THEN <<>>
    ELSE LET local_game_id == Get(game_mapping, stats[i].game_id)
             local_player_id == Get(player_mapping, stats[i].player_id)
             rest == StatRows(stats, game_mapping, player_mapping, i + 1)
         IN  IF Truthy(local_game_id) /\ Truthy(local_player_id)
             THEN <<[game_id |-> local_game_id, player_id |-> local_player_id]>>
                  \o rest
             ELSE rest

\* what a call has logged when it starts
NoLog ==
    [bulk |-> [t \in {"batter_stats", "pitcher_stats"} |->
                 [data |-> <<>>, outcome |-> "none"]],
     norow |-> FALSE]

LoadStats(s, table, stats, f) ==
    IF s.err THEN s
    ELSE IF stats = <<>> THEN [s EXCEPT !.stage = table]
    ELSE LET data == StatRows(stats, s.game_mapping, s.player_mapping, 1)
             r == bulk_insert_stats(s.db[table], data,
                                    FaultOf(f, s.n + 1, s.locked))
         IN  [s EXCEPT !.db[table] = IF r.committed THEN r.tbl ELSE @,
                       !.n = s.n + 1, !.err = r.raised, !.stage = table,
                       !.log.bulk[table] =
                           [data |-> data,
                            outcome |-> IF r.raised THEN "raised" ELSE "returned"]]

\* transform_and_load with the two bulk inserts inside one transaction that
\* an exception rolls back: a load that fails leaves no stat row
transform_and_load_OneTransaction(store, data, f, locked) ==
    LET s0 == [db |-> store, n |-> 0, err |-> FALSE, stage |-> "resolve",
               locked |-> locked,
               team_mapping_by_api |-> <<>>, team_mapping_by_name |-> <<>>,
               player_mapping |-> <<>>, game_mapping |-> <<>>, ret |-> {},
               log |-> NoLog]
        s1 == ProcessTeams(s0, data.teams, 1, f)
        s2 == ProcessRosters(s1, data.rosters, 1, f)
        s3 == ProcessGames(s2, data.games, 1, f)
        s4 == LoadStats(s3, "batter_stats", data.batter_stats, f)
        s5 == LoadStats(s4, "pitcher_stats", data.pitcher_stats, f)
    IN  IF f = 1 THEN [s0 EXCEPT !.err = TRUE, !.stage = "open"]
        ELSE IF s5.err
        THEN [s5 EXCEPT !.db.batter_stats = store.batter_stats,
                        !.db.pitcher_stats = store.pitcher_stats]
        ELSE [s5 EXCEPT !.stage = "done"]

\* f = 0: no injected error; f = 1: the unit cannot be read or the
\* connection cannot be opened; f >= 2: see FaultOf.
transform_and_load(store, data, f, locked) ==
    LET s0 == [db |-> store, n |-> 0, err |-> FALSE, stage |-> "resolve",
               locked |-> locked,
               team_mapping_by_api |-> <<>>, team_mapping_by_name |-> <<>>,
               player_mapping |-> <<>>, game_mapping |-> <<>>, ret |-> {},
               log |-> NoLog]
        s1 == ProcessTeams(s0, data.teams, 1, f)
        s2 == ProcessRosters(s1, data.rosters, 1, f)
        s3 == ProcessGames(s2, data.games, 1, f)
        s4 == LoadStats(s3, "batter_stats", data.batter_stats, f)
        s5 == LoadStats(s4, "pitcher_stats", data.pitcher_stats, f)
    IN  IF f = 1 THEN [s0 EXCEPT !.err = TRUE, !.stage = "open"]
        ELSE IF s5.err THEN s5
        ELSE [s5 EXCEPT !.stage = "done"]

\* ------------------------------------------------------------------------
\* The ledger
\* ------------------------------------------------------------------------
\* None where a text is expected (both are falsy)
NoText == <<>>

\* \d of a str pattern: the decimal digits of Unicode (category Nd, Unicode
\* 14.0), ten to a script; the code point of the zero of each
DecimalZeros ==
    {48, 1632, 1776, 1984, 2406, 2534, 2662, 2790, 2918, 3046, 3174, 3302,
     3430, 3558, 3664, 3792, 3872, 4160, 4240, 6112, 6160, 6470, 6608,
     6784, 6800, 6992, 7088, 7232, 7248, 42528, 43216, 43264, 43472, 43504,
     43600, 44016, 65296, 66720, 68912, 69734, 69872, 69942, 70096, 70384,
     70736, 70864, 71248, 71360, 71472, 71904, 72016, 72784, 73040, 73120,
     92768, 92864, 93008, 120782, 120792, 120802, 120812, 120822, 123200,
     123632, 125264, 130032}

IsDecimalDigit(c) ==
    c \in 48..57 \/ \E z \in DecimalZeros : z <= c /\ c <= z + 9

\* [\d-]
IsDateChar(c) == IsDecimalDigit(c) \/ c = 45

\* a text the group ([\d-]+) can take whole
IsDateText(t) == Len(t) > 0 /\ \A i \in 1..Len(t) : IsDateChar(t[i])

\* text t holds the text w at position i
HasAt(t, w, i) ==
    /\ i >= 1
    /\ i + Len(w) - 1 <= Len(t)
    /\ \A k \in 1..Len(w) : t[i + k - 1] = w[k]

\* filename.endswith(".json")
EndsWithJson(t) == HasAt(t, DotJson, Len(t) - Len(DotJson) + 1)

\* the position after the [\d-] characters that t holds from position i on
RECURSIVE DateRunEnd(_, _)
DateRunEnd(t, i) ==
    IF i <= Len(t) /\ IsDateChar(t[i]) THEN DateRunEnd(t, i + 1) ELSE i

\* re.match(r"mlb_raw_([\d-]+)_([\d-]+)_.*\.json", filename): the match
\* starts at the start of the name and need not reach its end.  A group
\* takes the [\d-] characters up to the "_" that must follow them; ".*" is any
\* text without a newline, after which ".json" must stand
extract_date_range(filename) ==
    LET prefix == MLB \o <<Underscore>> \o RAW \o <<Underscore>>
        s1 == Len(prefix) + 1
        e1 == DateRunEnd(filename, s1)
        s2 == e1 + 1
        e2 == DateRunEnd(filename, s2)
        tail == e2 + 1
    IN  IF /\ HasAt(filename, prefix, 1)
           /\ e1 > s1
           /\ HasAt(filename, <<Underscore>>, e1)
           /\ e2 > s2
           /\ HasAt(filename, <<Underscore>>, e2)
           /\ \E k \in tail..Len(filename) :
                 /\ HasAt(filename, DotJson, k)
                 /\ \A j \in tail..(k - 1) : filename[j] # 10
        THEN <<SubSeq(filename, s1, e1 - 1), SubSeq(filename, s2, e2 - 1)>>
        ELSE <<NoText, NoText>>

\* file_overlaps_processed that only asks whether the new end lies within a
\* recorded range
file_overlaps_processed_EndOnly(tbl, new_start, new_end, fault) ==
    IF fault THEN FALSE
    ELSE \E i \in 1..Len(tbl.rows) :
            /\ TextLE(new_end, tbl.rows[i].end_date)
            /\ TextLE(tbl.rows[i].start_date, new_end)

\* file_overlaps_processed answering True when the query hits a storage
\* error
file_overlaps_processed_FailClosed(tbl, new_start, new_end, fault) ==
    IF fault THEN TRUE
    ELSE \E i \in 1..Len(tbl.rows) :
            /\ TextLE(new_start, tbl.rows[i].end_date)
            /\ TextLE(tbl.rows[i].start_date, new_end)

\* SELECT 1 FROM processed_files WHERE (? <= end_date) AND (? >= start_date);
\* a storage error is logged and answered with False
file_overlaps_processed(tbl, new_start, new_end, fault) ==
    IF fault THEN FALSE
    ELSE \E i \in 1..Len(tbl.rows) :
            /\ TextLE(new_start, tbl.rows[i].end_date)
            /\ TextLE(tbl.rows[i].start_date, new_end)

\* INSERT INTO processed_files, commit, on main's connection.  file_name is
\* UNIQUE.  The result is the committed table, whether the call raised,
\* whether it leaves the connection inside a transaction, whether the
\* connection then holds the write lock, and the rows it inserted without
\* committing them.
\* fault = "rollback": the error ends the transaction
\*         "busy":     the INSERT finds the store locked by a writer past
\*                     the busy timeout: the transaction is open, no lock
\*                     is held
\*         "abort":    the INSERT fails, as the UNIQUE violation does, with
\*                     the transaction open and the write lock held
\*         "commit":   the INSERT is done and the commit finds the store
\*                     being read past the busy timeout: the row stays in
\*                     the open transaction, the write lock stays held
record_file_processed(tbl, filename, start_date, end_date, fault) ==
    LET dup == \E i \in 1..Len(tbl.rows) : tbl.rows[i].file_name = filename
        new == [id |-> tbl.seq + 1, file_name |-> filename,
                start_date |-> start_date, end_date |-> end_date]
    IN  IF fault = "rollback"
        THEN [tbl |-> tbl, raised |-> TRUE, in_transaction |-> FALSE,
              locked |-> FALSE, pending |-> <<>>]
        ELSE IF fault = "busy"
        THEN [tbl |-> tbl, raised |-> TRUE, in_transaction |-> TRUE,
              locked |-> FALSE, pending |-> <<>>]
        ELSE IF fault = "abort" \/ dup
        THEN [tbl |-> tbl, raised |-> TRUE, in_transaction |-> TRUE,
              locked |-> TRUE, pending |-> <<>>]
        ELSE IF fault = "commit"
        THEN [tbl |-> tbl, raised |-> TRUE, in_transaction |-> TRUE,
              locked |-> TRUE, pending |-> <<new>>]
        ELSE [tbl |-> [rows |-> Append(tbl.rows, new), seq |-> tbl.seq + 1],
              raised |-> FALSE, in_transaction |-> FALSE,
              locked |-> FALSE, pending |-> <<>>]

\* no transaction open on a connection
NoTxn == [in_transaction |-> FALSE, rows |-> <<>>]

\* the table as a connection sees it: the committed rows and the rows its
\* own open transaction has inserted
ConnView(tbl, t) ==
    [rows |-> tbl.rows \o t.rows, seq |-> tbl.seq + Len(t.rows)]

\* ------------------------------------------------------------------------
\* State
\* ------------------------------------------------------------------------
VARIABLES
    db,          \* mlb.db: the six tables
    raw,         \* the units in the intake directory RAW_DIR
    historical,  \* the units in the archive directory HISTORICAL_DIR
    pc,          \* position of main: idle, loop, checked, load, record, move
    pending,     \* the names os.listdir returned that the loop has yet to visit
    cur,         \* the unit the loop is handling
    overlap,     \* what the range check of cur answered
    status,      \* per unit, its state in the current run
    stage,       \* how far the load of cur got
    locked,      \* main's connection holds a lock that makes the loads fail
    faults,      \* errors injected so far
    handled,     \* units the runs started so far had to handle
    ret,         \* the (kind, external id, internal id) the resolvers returned
    checkFailed, \* the overlap query made for cur hit a storage error
    log,         \* what the last transform_and_load call logged
    args,        \* the arguments of a function exercised on its own
    out,         \* and what it returned
    txn          \* the transaction of main's connection: whether one is
                 \* open and the ledger rows it has inserted, uncommitted

vars == <<db, raw, historical, pc, pending, cur, overlap, status, stage,
          locked, faults, handled, ret, checkFailed, log, args, out,
          txn>>

Init ==
    /\ db = create_tables
    /\ raw = {}
    /\ historical = {}
    /\ pc = "idle"
    /\ pending = {}
    /\ cur = NoUnit
    /\ overlap = FALSE
    /\ status = [u \in Units |-> "NONE"]
    /\ stage = "none"
    /\ locked = FALSE
    /\ faults = 0
    /\ handled = 0
    /\ ret = {}
    /\ checkFailed = FALSE
    /\ log = NoLog
    /\ args = <<>>
    /\ out = <<>>
    /\ txn = NoTxn

\* ------------------------------------------------------------------------
\* Operations
\* ------------------------------------------------------------------------
\* the positions of main
PcValues == {"idle", "loop", "checked", "load", "record", "move"}

\* a unit is written into the intake directory (extract_mlb_data.main, or an
\* operator presenting a file again), by another process: before a run or
\* at any point of one.  A run handles the names its os.listdir returned, a
\* file written later waits for the next run.  The intake is not filled
\* beyond what the runs of a behaviour can still handle: handled counts the
\* units of the runs started so far, the files the current run has yet to
\* finish with among them
Deliver(u) ==
    /\ pc \in PcValues
    /\ u \notin raw
    /\ handled + Cardinality(raw \ (pending \cup {cur})) < MaxHandled
    /\ raw' = raw \cup {u}
    /\ UNCHANGED <<db, historical, pc, pending, cur, overlap, status, stage,
                   locked, faults, handled, ret, checkFailed, log, args, out, txn>>

\* main: connect, create_tables, os.listdir(RAW_DIR)
StartRun ==
    /\ pc = "idle"
    /\ pc' = "loop"
    /\ pending' = {u \in raw : EndsWithJson(FileName(u))}
    /\ handled + Cardinality(pending') <= MaxHandled
    /\ status' = [u \in Units |-> IF u \in pending' THEN "DISCOVERED" ELSE "NONE"]
    /\ handled' = handled + Cardinality(pending')
    /\ stage' = "none"
    /\ UNCHANGED <<db, raw, historical, cur, overlap, locked, faults, ret,
                   checkFailed, log, args, out, txn>>

\* main turning away a file whose name gives no range
ExtractAndCheck_SkipMalformed(u, fault) ==
    /\ pc = "loop"
    /\ u \in pending
    /\ fault => faults < MaxFaults
    /\ LET range == extract_date_range(FileName(u))
           parsed == range[1] # NoText /\ range[2] # NoText
       IN  /\ fault => parsed
           /\ overlap' = (~parsed \/ file_overlaps_processed(
                                         ConnView(db.processed_files, txn),
                                         range[1], range[2], fault))
           /\ checkFailed' = fault
           /\ locked' = (locked \/ (txn.in_transaction /\ parsed /\ ~fault))
    /\ pending' = pending \ {u}
    /\ cur' = u
    /\ pc' = "checked"
    /\ status' = [status EXCEPT ![u] = "RANGE_CHECKED"]
    /\ stage' = "none"
    /\ faults' = IF fault THEN faults + 1 ELSE faults
    /\ UNCHANGED <<db, raw, historical, handled, ret,
                   log, args, out, txn>>

\* the next file name of the listing: extract_date_range and, for a parsed
\* range, file_overlaps_processed.  The query runs on main's connection: it
\* sees the rows of that connection's open transaction, and inside an open
\* transaction the read lock it takes stays held, which makes the commits of
\* the loading connection fail from then on
ExtractAndCheck(u, fault) ==
    /\ pc = "loop"
    /\ u \in pending
    /\ fault => faults < MaxFaults
    /\ LET range == extract_date_range(FileName(u))
           parsed == range[1] # NoText /\ range[2] # NoText
       IN  /\ fault => parsed
           /\ overlap' = (parsed /\ file_overlaps_processed(
                                        ConnView(db.processed_files, txn),
                                        range[1], range[2], fault))
           /\ checkFailed' = fault
           /\ locked' = (locked \/ (txn.in_transaction /\ parsed /\ ~fault))
    /\ pending' = pending \ {u}
    /\ cur' = u
    /\ pc' = "checked"
    /\ status' = [status EXCEPT ![u] = "RANGE_CHECKED"]
    /\ stage' = "none"
    /\ faults' = IF fault THEN faults + 1 ELSE faults
    /\ UNCHANGED <<db, raw, historical, handled, ret,
                   log, args, out, txn>>

\* "overlaps with already processed data. Skipping file": continue
Skip ==
    /\ pc = "checked"
    /\ overlap
    /\ status' = [status EXCEPT ![cur] = "SKIPPED"]
    /\ cur' = NoUnit
    /\ pc' = "loop"
    /\ UNCHANGED <<db, raw, historical, pending, overlap, stage, locked,
                   faults, handled, ret, checkFailed, log, args, out, txn>>

\* main recording the unit before it loads it
BeginLoad_RecordFirst ==
    /\ pc = "checked"
    /\ ~overlap
    /\ status' = [status EXCEPT ![cur] = "LOADING"]
    /\ pc' = "record"
    /\ UNCHANGED <<db, raw, historical, pending, cur, overlap, stage, locked,
                   faults, handled, ret, checkFailed, log, args, out, txn>>

BeginLoad ==
    /\ pc = "checked"
    /\ ~overlap
    /\ status' = [status EXCEPT ![cur] = "LOADING"]
    /\ pc' = "load"
    /\ UNCHANGED <<db, raw, historical, pending, cur, overlap, stage, locked,
                   faults, handled, ret, checkFailed, log, args, out, txn>>

\* an upper bound of the storage calls a load of data makes: one per team,
\* player and game and one per stat kind
RECURSIVE RosterCalls(_, _)
RosterCalls(rosters, i) ==
    IF i > Len(rosters) THEN 0
    ELSE Len(rosters[i].roster) + RosterCalls(rosters, i + 1)

Calls(data) == Len(data.teams) + RosterCalls(data.rosters, 1) + Len(data.games) + 2

\* main without the try/except around the load: going on to record
AfterLoad_IgnoreError(err) == "record"

\* what main does after transform_and_load: on an exception the except
\* clause ends the handling of the unit
AfterLoad(err) == IF err THEN "loop" ELSE "record"

\* main's call of transform_and_load for cur.  f = 1 is a file that cannot be
\* opened or parsed: open and json.load come before create_connection, so
\* it fails the same way whatever lock main's connection holds; the errors
\* f > 1 are met at a storage call, which fails before them when the
\* database is locked.
TransformAndLoad(f) ==
    /\ pc = "load"
    /\ f <= 2 * Calls(Data(cur)) + 1
    /\ f # 0 => faults < MaxFaults
    /\ f > 1 => ~locked
    /\ LET r == transform_and_load(db, Data(cur), f, locked)
       IN  /\ f # 0 => r.err
           /\ db' = r.db
           /\ ret' = ret \cup r.ret
           /\ log' = r.log
           /\ stage' = r.stage
           /\ pc' = AfterLoad(r.err)
           /\ status' = IF pc' = "loop" THEN [status EXCEPT ![cur] = "FAILED"]
                        ELSE status
           /\ cur' = IF pc' = "loop" THEN NoUnit ELSE cur
    /\ faults' = IF f # 0 THEN faults + 1 ELSE faults
    /\ UNCHANGED <<raw, historical, pending, overlap, locked, handled,
                   checkFailed, args, out, txn>>

\* if start_date and end_date: record_file_processed(...)
RecordFileProcessed(fault) ==
    /\ pc = "record"
    /\ fault # "none" => faults < MaxFaults
    /\ LET range == extract_date_range(FileName(cur))
           parsed == range[1] # NoText /\ range[2] # NoText
           r == record_file_processed(db.processed_files, FileName(cur),
                                      range[1], range[2], fault)
       IN  IF parsed
           THEN /\ db' = [db EXCEPT !.processed_files = r.tbl]
                /\ locked' = r.locked
                /\ txn' = [in_transaction |-> r.in_transaction,
                           rows |-> r.pending]
                /\ pc' = IF r.raised THEN "loop" ELSE "move"
                /\ status' = IF r.raised THEN [status EXCEPT ![cur] = "FAILED"]
                             ELSE status
                /\ cur' = IF r.raised THEN NoUnit ELSE cur
           ELSE /\ fault = "none"
                /\ pc' = "move"
                /\ UNCHANGED <<db, locked, status, cur, txn>>
    /\ faults' = IF fault # "none" THEN faults + 1 ELSE faults
    /\ UNCHANGED <<raw, historical, pending, overlap, stage, handled, ret,
                   checkFailed, log, args, out>>

\* shutil.move(file_path, new_path); an OSError is caught by the except.
\* shutil.move renames and, where the rename fails, copies the file and then
\* unlinks the source: "fail" is a move that changed nothing (rename and
\* copy refused), "copied" one whose copy was made and whose unlink was
\* refused, which leaves the file in both directories
MoveToHistorical(fault) ==
    /\ pc = "move"
    /\ fault # "none" => faults < MaxFaults
    /\ CASE fault = "none" ->
              /\ status' = [status EXCEPT ![cur] = "COMMITTED"]
              /\ raw' = raw \ {cur}
              /\ historical' = historical \cup {cur}
         [] fault = "fail" ->
              /\ status' = [status EXCEPT ![cur] = "FAILED"]
              /\ UNCHANGED <<raw, historical>>
         [] fault = "copied" ->
              /\ status' = [status EXCEPT ![cur] = "FAILED"]
              /\ historical' = historical \cup {cur}
              /\ UNCHANGED raw
    /\ cur' = NoUnit
    /\ pc' = "loop"
    /\ faults' = IF fault # "none" THEN faults + 1 ELSE faults
    /\ UNCHANGED <<db, pending, overlap, stage, locked, handled, ret,
                   checkFailed, log, args, out, txn>>

\* the listing is exhausted: conn.close(), which drops an open transaction
EndRun ==
    /\ pc = "loop"
    /\ pending = {}
    /\ pc' = "idle"
    /\ locked' = FALSE
    /\ txn' = NoTxn
    /\ UNCHANGED <<db, raw, historical, pending, cur, overlap, status, stage,
                   faults, handled, ret, checkFailed, log, args, out>>

\* the fault codes of the loads of all units
FaultCodes == 0..(2 * Calls(Data(CHOOSE u \in Units : \A v \in Units : Calls(Data(v)) <= Calls(Data(u)))) + 1)

RunStep ==
    \/ \E u \in Units, fault \in BOOLEAN : ExtractAndCheck(u, fault)
    \/ Skip
    \/ BeginLoad
    \/ \E f \in FaultCodes : TransformAndLoad(f)
    \/ \E fault \in {"none", "abort", "rollback", "busy", "commit"} :
          RecordFileProcessed(fault)
    \/ \E fault \in {"none", "fail", "copied"} : MoveToHistorical(fault)
    \/ EndRun

Next ==
    \/ \E u \in Units : Deliver(u)
    \/ StartRun
    \/ RunStep

Spec == Init /\ [][Next]_vars

\* ------------------------------------------------------------------------
\* file_overlaps_processed on its own: a ledger of up to MaxLedger recorded
\* ranges, a candidate range and whether the query meets a storage error.
\* The texts are what the pattern [\d-]+ lets through: "05", "10" and "4".
\* ------------------------------------------------------------------------
DateTexts == {D(0, 5), D(1, 0), <<52>>}

Ranges == DateTexts \X DateTexts

\* the processed_files table holding the ranges rs, one file name each
LedgerTable(rs) ==
    [rows |-> [i \in 1..Len(rs) |->
                 [id |-> i,
                  file_name |-> [fields |-> <<MLB, RAW, rs[i][1], rs[i][2], <<96 + i>>>>,
                                 ext |-> "json"],
                  start_date |-> rs[i][1], end_date |-> rs[i][2]]],
     seq |-> Len(rs)]

\* the variables the functions exercised on their own leave alone
rest == <<raw, historical, pending, cur, overlap, status, stage, locked,
          faults, handled, ret, checkFailed, log, txn>>

RestInit ==
    /\ raw = {}
    /\ historical = {}
    /\ pending = {}
    /\ cur = NoUnit
    /\ overlap = FALSE
    /\ status = [u \in Units |-> "NONE"]
    /\ stage = "none"
    /\ locked = FALSE
    /\ faults = 0
    /\ handled = 0
    /\ ret = {}
    /\ checkFailed = FALSE
    /\ log = NoLog
    /\ txn = NoTxn

OverlapInit ==
    /\ \E n \in 0..MaxLedger : \E rs \in [1..n -> Ranges] :
          db = [create_tables EXCEPT !.processed_files = LedgerTable(rs)]
    /\ args \in [new_start : DateTexts, new_end : DateTexts, fault : BOOLEAN]
    /\ out = <<>>
    /\ pc = "query"
    /\ RestInit

\* file_overlaps_processed(conn, start_date, end_date)
OverlapQuery ==
    /\ pc \in {"query", "converse"}
    /\ out' = Append(out, file_overlaps_processed(db.processed_files,
                              args.new_start, args.new_end, args.fault))
    /\ pc' = IF pc = "query" THEN "answered" ELSE "both"
    /\ UNCHANGED <<db, args, rest>>

\* the candidate and the one recorded range change places
SwapRoles ==
    /\ pc = "answered"
    /\ Len(db.processed_files.rows) = 1
    /\ db' = [db EXCEPT !.processed_files =
                 LedgerTable(<<<<args.new_start, args.new_end>>>>)]
    /\ args' = [args EXCEPT !.new_start = db.processed_files.rows[1].start_date,
                            !.new_end = db.processed_files.rows[1].end_date]
    /\ pc' = "converse"
    /\ UNCHANGED <<out, rest>>

OverlapNext == OverlapQuery \/ SwapRoles

OverlapSpec == OverlapInit /\ [][OverlapNext]_vars

\* ------------------------------------------------------------------------
\* Two get_or_create_team calls on two connections to the same store, their
\* statements interleaved.  args[p] is the call of process p: its arguments,
\* where it is (insert, commit, select, fetch, returned, raised), between
\* its INSERT and its commit the teams table as its transaction sees it,
\* whether its connection holds the write lock, and the row its SELECT
\* read.  A connection that has written holds the write lock until it
\* commits; the INSERT of the other waits for it and, past the busy timeout
\* of sqlite3.connect, fails with "database is locked".  A connection that
\* has executed its SELECT holds a read lock until its fetchone; the commit
\* of the other waits for it and, past the timeout, fails the same way,
\* leaving its insert uncommitted and its write lock held.
\* ------------------------------------------------------------------------
Procs == {1, 2}

ResolveInit ==
    /\ \E t \in {EmptyTable, InsertOrIgnoreTeam(EmptyTable, 10, Name("T10"))} :
          db = [create_tables EXCEPT !.teams = t]
    /\ \E e \in [Procs -> {10, 20}] :
          args = [p \in Procs |->
                   [at |-> "insert", api_team_id |-> e[p],
                    name |-> IF p = 1 THEN Name("A") ELSE Name("B"),
                    txn |-> EmptyTable, lock |-> FALSE, row |-> None]]
    /\ out = [p \in Procs |-> None]
    /\ pc = "resolve"
    /\ RestInit

\* cursor.execute("INSERT OR IGNORE ...") with the write lock free
ResolveInsert(p) ==
    /\ args[p].at = "insert"
    /\ \A q \in Procs : ~args[q].lock
    /\ args' = [args EXCEPT ![p].at = "commit",
                            ![p].lock = TRUE,
                            ![p].txn = InsertOrIgnoreTeam(db.teams,
                                          args[p].api_team_id, args[p].name)]
    /\ UNCHANGED <<db, out, pc, rest>>

\* the same with the lock held by the other call until the timeout:
\* sqlite3.OperationalError, logged and raised again
ResolveBusy(p) ==
    /\ args[p].at = "insert"
    /\ \E q \in Procs \ {p} : args[q].lock
    /\ args' = [args EXCEPT ![p].at = "raised"]
    /\ UNCHANGED <<db, out, pc, rest>>

\* conn.commit() with no other connection reading
ResolveCommit(p) ==
    /\ args[p].at = "commit"
    /\ \A q \in Procs \ {p} : args[q].at # "fetch"
    /\ db' = [db EXCEPT !.teams = args[p].txn]
    /\ args' = [args EXCEPT ![p].at = "select", ![p].lock = FALSE]
    /\ UNCHANGED <<out, pc, rest>>

\* conn.commit() while the other call stands between its SELECT and its
\* fetchone, until the timeout: sqlite3.OperationalError, logged and raised
\* again; nothing is committed
ResolveCommitBusy(p) ==
    /\ args[p].at = "commit"
    /\ \E q \in Procs \ {p} : args[q].at = "fetch"
    /\ args' = [args EXCEPT ![p].at = "raised"]
    /\ UNCHANGED <<db, out, pc, rest>>

\* cursor.execute("SELECT team_id FROM teams WHERE api_team_id = ?")
ResolveSelect(p) ==
    /\ args[p].at = "select"
    /\ args' = [args EXCEPT ![p].at = "fetch",
                            ![p].row = SelectTeamId(db.teams, args[p].api_team_id)]
    /\ UNCHANGED <<db, out, pc, rest>>

\* row = cursor.fetchone(); return row[0], or raise when there is no row
ResolveFetch(p) ==
    /\ args[p].at = "fetch"
    /\ args' = [args EXCEPT ![p].at = IF args[p].row = None THEN "raised"
                                      ELSE "returned"]
    /\ out' = [out EXCEPT ![p] = args[p].row]
    /\ UNCHANGED <<db, pc, rest>>

ResolveNext ==
    \E p \in Procs :
        \/ ResolveInsert(p)
        \/ ResolveBusy(p)
        \/ ResolveCommit(p)
        \/ ResolveCommitBusy(p)
        \/ ResolveSelect(p)
        \/ ResolveFetch(p)

ResolveSpec == ResolveInit /\ [][ResolveNext]_vars

\* ------------------------------------------------------------------------
\* The derived rate stats of a batting line (transform_and_load, the loop
\* over batter_stats).  A rate is held in thousandths: 0.333 is 333.
\* ------------------------------------------------------------------------
\* what a Python division by zero gives (no rate is negative)
ZeroDivisionError == 0 - 2

\* num / den of two positive integers is the double nearest to the quotient
\* (53 significant bits, ties to the even one).  FloatNorm scales the two by
\* powers of two until d <= a < 2d, which leaves the significant bits alone
RECURSIVE FloatNorm(_, _)
FloatNorm(a, d) ==
    IF a < d THEN FloatNorm(2 * a, d)
    ELSE IF a >= 2 * d THEN FloatNorm(a, 2 * d)
    ELSE <<a, d>>

\* the long division after the leading bit: r is the remainder, n the bits
\* still to produce, lsb the bit produced last.  The answer is how the
\* double compares with the quotient: 1 above it, 0 equal, -1 below it
RECURSIVE FloatBits(_, _, _, _)
FloatBits(r, d, n, lsb) ==
    IF n = 0
    THEN IF r = 0 THEN 0
         ELSE IF 2 * r > d THEN 1
         ELSE IF 2 * r < d THEN 0 - 1
         ELSE IF lsb = 1 THEN 1 ELSE 0 - 1
    ELSE IF 2 * r >= d THEN FloatBits(2 * r - d, d, n - 1, 1)
         ELSE FloatBits(2 * r, d, n - 1, 0)

FloatSide(num, den) ==
    LET nd == FloatNorm(num, den)
    IN  FloatBits(nd[1] - nd[2], nd[2], 52, 1)

\* a value k, in thousandths, is num / den rounded to 3 decimal places: no
\* thousandth lies nearer to the quotient (half way, either neighbour is)
IsRounded3(k, num, den) ==
    /\ 2 * (1000 * num - k * den) <= den
    /\ 2 * (k * den - 1000 * num) <= den

\* round(num / den, 3) that cuts the quotient off after the third decimal
Round3_Floor(num, den) ==
    IF den = 0 THEN ZeroDivisionError ELSE (1000 * num) \div den

\* round(num / den, 3) in thousandths: the thousandth nearest to the double
\* num / den.  Where the quotient lies half way between two thousandths the
\* double decides: above or below the quotient unless it is exact, and then
\* round() takes the even thousandth
Round3(num, den) ==
    IF den = 0 THEN ZeroDivisionError
    ELSE LET a == (1000 * num) \div den
             r == 1000 * num - a * den
         IN  IF 2 * r < den THEN a
             ELSE IF 2 * r > den THEN a + 1
             ELSE LET side == FloatSide(num, den)
                  IN  IF side > 0 THEN a + 1
                      ELSE IF side < 0 THEN a
                      ELSE IF a % 2 = 0 THEN a ELSE a + 1

\* the batting line dividing whatever its denominators are
BatterRates_Unguarded(stat) ==
    LET obp_denominator == stat.at_bats + stat.walks + stat.hit_by_pitch
                             + stat.sac_flies
        avg == Round3(stat.hits, stat.at_bats)
        obp == Round3(stat.hits + stat.walks + stat.hit_by_pitch, obp_denominator)
        slg == Round3(stat.total_bases, stat.at_bats)
        raised == ZeroDivisionError \in {avg, obp, slg}
    IN  [avg |-> avg, obp |-> obp, slg |-> slg,
         ops |-> IF raised THEN ZeroDivisionError ELSE Round3(obp + slg, 1000),
         raised |-> raised]

\* avg, obp, slg and ops of a batting line; ops rounds the sum of the
\* rounded obp and slg
BatterRates(stat) ==
    LET obp_denominator == stat.at_bats + stat.walks + stat.hit_by_pitch
                             + stat.sac_flies
        avg == IF stat.at_bats > 0 THEN Round3(stat.hits, stat.at_bats) ELSE 0
        obp == IF obp_denominator > 0
               THEN Round3(stat.hits + stat.walks + stat.hit_by_pitch,
                           obp_denominator)
               ELSE 0
        slg == IF stat.at_bats > 0 THEN Round3(stat.total_bases, stat.at_bats)
               ELSE 0
        raised == ZeroDivisionError \in {avg, obp, slg}
    IN  [avg |-> avg, obp |-> obp, slg |-> slg,
         ops |-> IF raised THEN ZeroDivisionError ELSE Round3(obp + slg, 1000),
         raised |-> raised]

Counts == 0..MaxCount

\* the at-bats of a line whose average can lie half way between two
\* thousandths without being exact as a double (1/80 = 0.0125)
ManyAtBats == 80

DeriveInit ==
    /\ args \in [at_bats : Counts \cup {ManyAtBats}, hits : Counts, walks : Counts,
                  hit_by_pitch : Counts, sac_flies : Counts,
                  total_bases : Counts]
    /\ out = <<>>
    /\ pc = "derive"
    /\ db = create_tables
    /\ RestInit

Derive ==
    /\ pc = "derive"
    /\ out' = BatterRates(args)
    /\ pc' = "derived"
    /\ UNCHANGED <<db, args, rest>>

DeriveNext == Derive

DeriveSpec == DeriveInit /\ [][DeriveNext]_vars

\* main is a sequential program that keeps executing: while it is running,
\* its position eventually moves.  Every step of a run (RunStep) moves pc,
\* and pc moves from a position other than idle only by such a step.
Advance == pc # "idle" /\ pc' \in PcValues /\ pc' # pc

FairSpec == Spec /\ WF_pc(Advance)

\* ------------------------------------------------------------------------
\* Vocabulary of the properties
\* ------------------------------------------------------------------------
Terminal == {"SKIPPED", "COMMITTED", "FAILED"}

\* the token of u parses into a start and an end
Parsed(u) == extract_date_range(FileName(u))[1] # NoText
StartOf(u) == extract_date_range(FileName(u))[1]
EndOf(u) == extract_date_range(FileName(u))[2]

\* [s1, e1] and [s2, e2] overlap
RangesOverlap(s1, e1, s2, e2) == TextLE(s1, e2) /\ TextLE(s2, e1)

Ledger == db.processed_files.rows

\* the declared range of u overlaps a recorded range
OverlapsLedger(u) ==
    /\ Parsed(u)
    /\ \E i \in 1..Len(Ledger) :
          RangesOverlap(StartOf(u), EndOf(u),
                        Ledger[i].start_date, Ledger[i].end_date)

\* the ledger holds a record of u
Recorded(u) == \E i \in 1..Len(Ledger) : Ledger[i].file_name = FileName(u)

\* the unit a ledger row was written for
UnitOf(row) == CHOOSE u \in Units : FileName(u) = row.file_name

\* the rows of a reference table that carry the external id e, as
\* SELECT ... WHERE api_*_id = ? finds them: NULL = NULL is not true, no row
\* is found for None
RowsOf(kind, e) ==
    CASE kind = "team" ->
           {r \in {db.teams.rows[i] : i \in 1..Len(db.teams.rows)} :
              e # None /\ r.api_team_id = e}
      [] kind = "player" ->
           {r \in {db.players.rows[i] : i \in 1..Len(db.players.rows)} :
              e # None /\ r.api_player_id = e}
      [] kind = "game" ->
           {r \in {db.games.rows[i] : i \in 1..Len(db.games.rows)} :
              e # None /\ r.api_game_id = e}

IdOf(kind, r) ==
    CASE kind = "team" -> r.team_id
      [] kind = "player" -> r.player_id
      [] kind = "game" -> r.game_id

StatTables == {"batter_stats", "pitcher_stats"}

\* the external ids of the teams unit u lists
TeamIds(u) == {Data(u).teams[i].id : i \in 1..Len(Data(u).teams)}

\* the names of the teams unit u lists
TeamNames(u) == {Data(u).teams[i].name : i \in 1..Len(Data(u).teams)}

\* the key of the i-th roster of unit u names a team u lists
RosterMapped(u, i) ==
    LET key == Data(u).rosters[i].team_key
    IN  IF key.isdigit THEN key.int \in TeamIds(u)
        ELSE Name(key.name) \in TeamNames(u)

\* both teams of game g are among the teams unit u lists
TeamsMapped(u, g) ==
    g.home_team_id \in TeamIds(u) /\ g.away_team_id \in TeamIds(u)

\* the rows of a games table that carry the external id e, as
\* SELECT ... WHERE api_game_id = ? finds them (none for None)
GameRows(tbl, e) ==
    {i \in 1..Len(tbl.rows) : e # None /\ tbl.rows[i].api_game_id = e}

\* the load of unit u hands a resolver an entity without an external id: a
\* team, a player on a roster of a team u lists, or a game between teams u
\* lists (the other rosters and games are skipped before the resolver)
HasNullId(u) ==
    \/ None \in TeamIds(u)
    \/ \E i \in 1..Len(Data(u).rosters) :
          /\ RosterMapped(u, i)
          /\ \E j \in 1..Len(Data(u).rosters[i].roster) :
                Data(u).rosters[i].roster[j].id = None
    \/ \E i \in 1..Len(Data(u).games) :
          /\ TeamsMapped(u, Data(u).games[i])
          /\ Data(u).games[i].game_id = None

\* unit u names a team without a name, or a player without one on a roster
\* of a team it lists
HasNoName(u) ==
    \/ NoName \in TeamNames(u)
    \/ \E i \in 1..Len(Data(u).rosters) :
          /\ RosterMapped(u, i)
          /\ \E j \in 1..Len(Data(u).rosters[i].roster) :
                Data(u).rosters[i].roster[j].fullName = NoName

\* the rows of table grew by exactly the rows of data, in order
GrewBy(old, new, data) ==
    /\ Len(new) = Len(old) + Len(data)
    /\ SubSeq(new, 1, Len(old)) = old
    /\ \A i \in 1..Len(data) :
          /\ new[Len(old) + i].game_id = data[i].game_id
          /\ new[Len(old) + i].player_id = data[i].player_id

\* ------------------------------------------------------------------------
\* Properties
\* ------------------------------------------------------------------------

\* C1: whatever number of times a resolver has been called with an external
\* id e, all the calls returned the same internal id, and the table holds
\* exactly one row for e, the one with that id.
C1_ResolveIdempotent ==
    \A t \in ret :
        /\ \A t2 \in ret : (t2[1] = t[1] /\ t2[2] = t[2]) => t2[3] = t[3]
        /\ Cardinality(RowsOf(t[1], t[2])) = 1
        /\ \A r \in RowsOf(t[1], t[2]) : IdOf(t[1], r) = t[3]

\* every table has ignored an insert (its counter ran ahead of its rows):
\* a team, a player and a game were resolved again, with no storage error
C1_Witness ==
    /\ faults = 0
    /\ \A k \in {"team", "player", "game"} : \E t \in ret : t[1] = k
    /\ db.teams.seq > Len(db.teams.rows)
    /\ db.players.seq > Len(db.players.rows)
    /\ db.games.seq > Len(db.games.rows)

\* C2 as stated: a unit found at the range check with a declared range that
\* overlaps a recorded range is skipped by the next step, which changes no
\* table and moves no file.
C2_OverlapSkipped ==
    [][(pc = "checked" /\ pc' # pc /\ OverlapsLedger(cur))
         => (status'[cur] = "SKIPPED" /\ pc' = "loop" /\ db' = db
             /\ raw' = raw /\ historical' = historical)]_vars

\* C3 as stated (and even when the overlap query succeeds): a committed unit
\* with a well-formed token that is presented again is skipped at its range
\* check, and no table changes.
C3_CommittedUnitRejected ==
    [][(pc = "checked" /\ pc' # pc /\ Parsed(cur) /\ Recorded(cur)
          /\ cur \in historical /\ ~checkFailed)
         => (status'[cur] = "SKIPPED" /\ db' = db)]_vars

\* C4 as stated: no two recorded ranges overlap.
C4_LedgerDisjoint ==
    \A i, j \in 1..Len(Ledger) :
        i < j => ~RangesOverlap(Ledger[i].start_date, Ledger[i].end_date,
                                Ledger[j].start_date, Ledger[j].end_date)

\* C5 as stated: a load that fails during reference-data resolution leaves
\* no team, player or game row behind.
C5_ResolutionAtomic ==
    [][(pc = "load" /\ pc' # pc /\ stage' = "resolve")
         => (/\ db'.teams.rows = db.teams.rows
             /\ db'.players.rows = db.players.rows
             /\ db'.games.rows = db.games.rows)]_vars

\* C6: a load that does not complete makes the unit FAILED and ends its
\* handling with the ledger and both directories as they were; and for the
\* rest of the run a FAILED unit stays where it is, with no ledger record
\* written for it.
C6_FailedLoadLeavesUnit ==
    [][/\ (pc = "load" /\ pc' # pc /\ stage' # "done")
            => (/\ status'[cur] = "FAILED"
                /\ pc' = "loop"
                /\ cur \in raw'
                /\ historical' = historical
                /\ db'.processed_files = db.processed_files)
       /\ \A u \in Units :
            (status[u] = "FAILED" /\ status'[u] = "FAILED")
              => (/\ (u \in raw) = (u \in raw')
                  /\ (u \in historical) = (u \in historical')
                  /\ Recorded(u)' = Recorded(u))]_vars

\* a unit whose load failed at a storage call is FAILED and in the intake,
\* with nothing recorded
C6_Witness ==
    /\ pc = "loop"
    /\ stage \in {"resolve", "batter_stats", "pitcher_stats"}
    /\ \E u \in Units : status[u] = "FAILED" /\ u \in raw /\ ~Recorded(u)
                        /\ u \notin historical

\* the steps the state of a unit takes within a run
C7_Steps ==
    {<<"DISCOVERED", "RANGE_CHECKED">>, <<"RANGE_CHECKED", "SKIPPED">>,
     <<"RANGE_CHECKED", "LOADING">>, <<"LOADING", "COMMITTED">>,
     <<"LOADING", "FAILED">>}

\* C7 as stated: within a run the state of a unit moves only along
\* DISCOVERED -> RANGE_CHECKED -> {SKIPPED | LOADING} -> {COMMITTED | FAILED};
\* a run that has started ends, and at its end every unit it discovered is in
\* a terminal state; and no error raised while handling one unit prevents a
\* unit handled after it from being processed: a load that meets no error of
\* its own, of a unit whose reference data resolves, completes.
C7_EveryUnitSettled ==
    /\ [][\A u \in Units :
            (pc # "idle" /\ status'[u] # status[u])
              => <<status[u], status'[u]>> \in C7_Steps]_vars
    /\ [](pc = "idle" => \A u \in Units : status[u] \in Terminal \cup {"NONE"})
    /\ (pc # "idle") ~> (pc = "idle")
    /\ [][(pc = "load" /\ pc' # pc /\ faults' = faults
            /\ ~HasNullId(cur) /\ ~HasNoName(cur))
           => stage' = "done"]_vars

\* C8: the ledger changes only by the record step of the unit being handled,
\* taken after the load of that unit has completed, and by one row that
\* carries the name of that unit.
C8_RecordOnlyAfterLoad ==
    [][(Ledger' # Ledger)
         => (/\ pc = "record"
             /\ stage = "done"
             /\ Len(Ledger') = Len(Ledger) + 1
             /\ SubSeq(Ledger', 1, Len(Ledger)) = Ledger
             /\ Ledger'[Len(Ledger')].file_name = FileName(cur))]_vars

\* the record of a unit has just been written, after its load
C8_Witness ==
    /\ pc = "move"
    /\ stage = "done"
    /\ Recorded(cur)
    /\ Ledger[Len(Ledger)].file_name = FileName(cur)

\* C9 as stated: a unit is moved to the archive only once COMMITTED, that
\* is with its load committed and its ledger record written: every archived
\* unit has a ledger record.
C9_ArchivedHasRecord == \A u \in historical : Recorded(u)

\* C10 as stated (and even when the overlap query succeeds): a unit that has
\* its ledger record but was never archived, because its move failed, is
\* skipped at the range check of a later run, and no table changes.
C10_RecordedUnitNotReprocessed ==
    [][(pc = "checked" /\ pc' # pc /\ Recorded(cur) /\ cur \notin historical
          /\ ~checkFailed)
         => (status'[cur] = "SKIPPED" /\ db' = db)]_vars

\* C11: a load step leaves every stat table it bulk-inserted into either
\* with all the rows of the batch appended (the call returned) or exactly
\* as it was (the call raised a storage error, at the first row or later).
C11_BulkAllOrNothing ==
    [][(pc = "load" /\ pc' # pc)
         => \A t \in StatTables :
              /\ log'.bulk[t].outcome = "returned"
                   => GrewBy(db[t].rows, db'[t].rows, log'.bulk[t].data)
              /\ log'.bulk[t].outcome = "raised"
                   => db'[t] = db[t]]_vars

\* a load whose batter batch was persisted and whose pitcher batch, of two
\* rows, raised: the batter rows are there and no pitcher row is
C11_Witness ==
    /\ stage = "pitcher_stats"
    /\ log.bulk["batter_stats"].outcome = "returned"
    /\ Len(log.bulk["batter_stats"].data) >= 1
    /\ log.bulk["pitcher_stats"].outcome = "raised"
    /\ Len(log.bulk["pitcher_stats"].data) >= 2
    /\ Len(db.batter_stats.rows) >= 1
    /\ db.pitcher_stats.rows = <<>>

\* C12 as stated: the overlap query answers true exactly when the ledger
\* holds a recorded range [s, e] with start <= e and s <= end.
C12_OverlapsIff ==
    pc = "answered"
      => (out[1] <=> \E i \in 1..Len(Ledger) :
                        RangesOverlap(args.new_start, args.new_end,
                                      Ledger[i].start_date, Ledger[i].end_date))

\* C13: with the roles of candidate and recorded range exchanged the overlap
\* query gives the same answer (the storage behaving the same both times).
C13_OverlapSymmetric == pc = "both" => out[1] = out[2]

\* two different ranges, one of them with its start after its end, reported
\* as overlapping both ways
C13_Witness ==
    /\ pc = "both"
    /\ out = <<TRUE, TRUE>>
    /\ <<args.new_start, args.new_end>> # <<Ledger[1].start_date, Ledger[1].end_date>>
    /\ ~TextLE(args.new_start, args.new_end)

\* C14: a unit whose token does not parse is given no overlap answer (and
\* no overlap query is made for it), goes on to LOADING whatever the ledger
\* holds, and its load is run.
C14_MalformedTokenLoaded ==
    /\ [][\A u \in Units :
            (pc = "loop" /\ cur' = u /\ ~Parsed(u))
              => (~overlap' /\ ~checkFailed' /\ faults' = faults)]_vars
    /\ [][(pc = "checked" /\ pc' # pc /\ ~Parsed(cur))
            => (pc' = "load" /\ status'[cur] = "LOADING")]_vars
    /\ [][(pc = "load" /\ pc' # pc /\ ~Parsed(cur))
            => (stage' # "none" /\ (stage' = "done" => pc' = "record"))]_vars

\* the unit with the malformed token has been loaded while the ledger held
\* two ranges
C14_Witness ==
    /\ pc = "move"
    /\ ~Parsed(cur)
    /\ stage = "done"
    /\ Len(Ledger) = 2
    /\ \E i \in 1..Len(db.teams.rows) : db.teams.rows[i].api_team_id = 20

\* C15: a load whose resolution was not cut short by an error has added no
\* row for a game with an unmapped home or away team, and holds a row for,
\* and has resolved, every game whose two teams are mapped, those listed
\* after a skipped game included; and a skipped game alone does not fail
\* the load: with no storage error and no missing external id or name it
\* completes.
C15_GameSkipNotFatal ==
    /\ [][(pc = "load" /\ pc' # pc /\ stage' \notin {"open", "resolve"})
            => \A i \in 1..Len(Data(cur).games) :
                 LET g == Data(cur).games[i]
                 IN  IF TeamsMapped(cur, g)
                     THEN \E k \in GameRows(db'.games, g.game_id) :
                             <<"game", g.game_id, db'.games.rows[k].game_id>> \in ret'
                     ELSE GameRows(db'.games, g.game_id)
                            = GameRows(db.games, g.game_id)]_vars
    /\ [][(pc = "load" /\ pc' # pc /\ faults' = faults /\ ~locked
             /\ ~HasNullId(cur) /\ ~HasNoName(cur))
            => stage' = "done"]_vars

\* U2 has been loaded: its first game, whose home team 10 it does not list,
\* is not in the games table and its second game is
C15_Witness ==
    /\ pc = "record"
    /\ cur = "U2"
    /\ stage = "done"
    /\ ~TeamsMapped("U2", Data("U2").games[1])
    /\ GameRows(db.games, Data("U2").games[1].game_id) = {}
    /\ GameRows(db.games, Data("U2").games[2].game_id) # {}

\* the committed rows of teams that carry the external id e, as
\* SELECT ... WHERE api_team_id = ? finds them (none for None)
TeamRows(e) ==
    {i \in 1..Len(db.teams.rows) : e # None /\ db.teams.rows[i].api_team_id = e}

\* C16 as stated: once the two calls are over, both have returned, the
\* store holds exactly one row for the external id of each and each call
\* returned the internal id of that row.
C16_BothCallsReturnOneRow ==
    (pc = "resolve" /\ \A p \in Procs : args[p].at \in {"returned", "raised"})
      => \A p \in Procs :
           /\ args[p].at = "returned"
           /\ Cardinality(TeamRows(args[p].api_team_id)) = 1
           /\ \A i \in TeamRows(args[p].api_team_id) :
                 db.teams.rows[i].team_id = out[p]

\* C16, amended: in every interleaving the store never holds two rows for
\* one external id, and a call that returns, returns the internal id of the
\* one row of its external id (so two calls with the same id return the
\* same); a call does not return only when it found the store locked by the
\* other call past the busy timeout: at its INSERT, the other holding the
\* write lock, or at its commit, the other standing between its SELECT and
\* its fetchone.
C16_OneRowForCallsThatReturn ==
    /\ [](pc = "resolve"
            => /\ \A e \in {10, 20} : Cardinality(TeamRows(e)) <= 1
               /\ \A p \in Procs :
                     args[p].at = "returned"
                       => (/\ Cardinality(TeamRows(args[p].api_team_id)) = 1
                           /\ \A i \in TeamRows(args[p].api_team_id) :
                                 db.teams.rows[i].team_id = out[p]))
    /\ [][pc = "resolve"
            => \A p \in Procs :
                 (args[p].at # "raised" /\ args'[p].at = "raised")
                   => \E q \in Procs \ {p} :
                         \/ args[p].at = "insert" /\ args[q].lock
                         \/ args[p].at = "commit" /\ args[q].at = "fetch"]_vars

\* both calls, made with the same new external id and different names, have
\* executed their INSERT and returned the id of the one row
C16_Witness ==
    /\ pc = "resolve"
    /\ \A p \in Procs : args[p].at = "returned"
    /\ args[1].api_team_id = args[2].api_team_id
    /\ out[1] = out[2]
    /\ Len(db.teams.rows) = 1
    /\ db.teams.seq = 2

\* C17: a load in which a resolver found no row after its insert fails the
\* unit during resolution: no stat row is added, the ledger and the two
\* directories stay as they were and the unit is FAILED; a unit that names
\* an entity without an external id, or without a name, is therefore never
\* recorded or archived.
C17_NoRowAbortsUnit ==
    /\ [][(pc = "load" /\ pc' # pc /\ log'.norow)
            => (/\ stage' = "resolve"
                /\ status'[cur] = "FAILED"
                /\ pc' = "loop"
                /\ db'.batter_stats = db.batter_stats
                /\ db'.pitcher_stats = db.pitcher_stats
                /\ db'.processed_files = db.processed_files
                /\ cur \in raw' /\ raw' = raw
                /\ historical' = historical)]_vars
    /\ [][(pc = "load" /\ pc' # pc /\ faults' = faults /\ ~locked
             /\ (HasNullId(cur) \/ HasNoName(cur)))
            => log'.norow]_vars
    /\ [](\A u \in Units :
            (HasNullId(u) \/ HasNoName(u))
              => (~Recorded(u) /\ u \notin historical))

\* the load of U5 met its team without an id after it had stored team 20:
\* U5 is FAILED and in the intake, nothing recorded, no stat row
C17_Witness ==
    /\ pc = "loop"
    /\ log.norow
    /\ status["U5"] = "FAILED"
    /\ "U5" \in raw
    /\ ~Recorded("U5")
    /\ TeamRows(20) # {}
    /\ db.batter_stats.rows = <<>>
    /\ faults = 0

\* C18: deriving the rates of a line of non-negative counts divides by no
\* zero; average and slugging are 0.0 when AB = 0, on-base percentage is 0.0
\* when AB + BB + HBP + SF = 0, and the line of zeros gives four zeros.
C18_NoDivisionError ==
    pc = "derived"
      => /\ ~out.raised
         /\ args.at_bats = 0 => (out.avg = 0 /\ out.slg = 0)
         /\ args.at_bats + args.walks + args.hit_by_pitch + args.sac_flies = 0
              => out.obp = 0
         /\ (\A k \in DOMAIN args : args[k] = 0)
              => (out.avg = 0 /\ out.obp = 0 /\ out.slg = 0 /\ out.ops = 0)

\* the rates of the line of zeros have been derived
C18_Witness ==
    /\ pc = "derived"
    /\ \A k \in DOMAIN args : args[k] = 0
    /\ out = [avg |-> 0, obp |-> 0, slg |-> 0, ops |-> 0, raised |-> FALSE]

\* C19: with non-zero denominators the stored average is H/AB, on-base
\* percentage (H+BB+HBP)/(AB+BB+HBP+SF) and slugging TB/AB, each rounded to 3
\* decimal places, and on-base-plus-slugging is the sum of the stored
\* on-base percentage and the stored slugging, rounded to 3 decimal places;
\* 4, 2, 1, 0, 0, 3 gives 0.5, 0.6, 0.75, 1.35.
C19_RatesRounded ==
    (pc = "derived" /\ args.at_bats > 0)
      => LET den == args.at_bats + args.walks + args.hit_by_pitch + args.sac_flies
             on == args.hits + args.walks + args.hit_by_pitch
         IN  /\ ~out.raised
             /\ IsRounded3(out.avg, args.hits, args.at_bats)
             /\ IsRounded3(out.obp, on, den)
             /\ IsRounded3(out.slg, args.total_bases, args.at_bats)
             /\ IsRounded3(out.ops, out.obp + out.slg, 1000)
             /\ args = [at_bats |-> 4, hits |-> 2, walks |-> 1,
                        hit_by_pitch |-> 0, sac_flies |-> 0, total_bases |-> 3]
                  => out = [avg |-> 500, obp |-> 600, slg |-> 750,
                            ops |-> 1350, raised |-> FALSE]

\* the rates of the line 4, 2, 1, 0, 0, 3 have been derived
C19_Witness ==
    /\ pc = "derived"
    /\ args = [at_bats |-> 4, hits |-> 2, walks |-> 1,
               hit_by_pitch |-> 0, sac_flies |-> 0, total_bases |-> 3]
    /\ out = [avg |-> 500, obp |-> 600, slg |-> 750, ops |-> 1350,
              raised |-> FALSE]

Tables == {"teams", "players", "games", "batter_stats", "pitcher_stats",
           "processed_files"}

\* C20: every step leaves the rows each table held where and as they were;
\* a table changes only by rows added after them.  So a player resolved
\* again with another team keeps its row, its id and its first team.
C20_AppendOnly ==
    [][\A t \in Tables :
          /\ Len(db'[t].rows) >= Len(db[t].rows)
          /\ SubSeq(db'[t].rows, 1, Len(db[t].rows)) = db[t].rows]_vars

\* U1 put player 1 on team 10; U2, loaded after it, lists player 1 on the
\* roster of team 20 and was given the id of the row, whose team is still
\* team 10
C20_Witness ==
    /\ cur = "U2"
    /\ stage = "done"
    /\ Recorded("U1")
    /\ Len(db.players.rows) = 1
    /\ <<"player", 1, db.players.rows[1].player_id>> \in ret
    /\ \E i \in TeamRows(10) :
          db.players.rows[1].team_id = db.teams.rows[i].team_id
    /\ \E i \in TeamRows(20) :
          db.players.rows[1].team_id # db.teams.rows[i].team_id

\* the external ids of the games of unit u whose two teams u lists
GamesResolved(u) ==
    {Data(u).games[i].game_id :
       i \in {k \in 1..Len(Data(u).games) : TeamsMapped(u, Data(u).games[k])}}

\* the external ids of the players on the rosters of unit u whose key names
\* a team u lists
PlayersResolved(u) ==
    UNION {{Data(u).rosters[i].roster[j].id :
               j \in 1..Len(Data(u).rosters[i].roster)} :
             i \in {k \in 1..Len(Data(u).rosters) : RosterMapped(u, k)}}

\* the stat records of unit u for table t whose game and player u resolves
StatsResolved(u, t) ==
    {i \in 1..Len(Data(u)[t]) :
       /\ Data(u)[t][i].game_id \in GamesResolved(u)
       /\ Data(u)[t][i].player_id \in PlayersResolved(u)}

\* C21: every row of batter_stats and pitcher_stats references a game row
\* and a player row the store holds; and the batch a load hands to a bulk
\* insert has one row for each stat record whose game and player the unit
\* itself resolved, referencing the rows of that game and player, and none
\* for the other records.
C21_StatRowsReferenceExisting ==
    /\ [](\A t \in StatTables : \A i \in 1..Len(db[t].rows) :
            /\ \E k \in 1..Len(db.games.rows) :
                  db.games.rows[k].game_id = db[t].rows[i].game_id
            /\ \E k \in 1..Len(db.players.rows) :
                  db.players.rows[k].player_id = db[t].rows[i].player_id)
    /\ [][(pc = "load" /\ pc' # pc)
            => \A t \in StatTables :
                 log'.bulk[t].outcome # "none"
                   => LET data == log'.bulk[t].data
                      IN  /\ Len(data) = Cardinality(StatsResolved(cur, t))
                          /\ \A j \in 1..Len(data) :
                                /\ \E k \in 1..Len(db'.games.rows) :
                                      /\ db'.games.rows[k].game_id = data[j].game_id
                                      /\ db'.games.rows[k].api_game_id
                                           \in GamesResolved(cur)
                                /\ \E k \in 1..Len(db'.players.rows) :
                                      /\ db'.players.rows[k].player_id = data[j].player_id
                                      /\ db'.players.rows[k].api_player_id
                                           \in PlayersResolved(cur)]_vars

\* U2 has been loaded: of its three batting records, one for a game it
\* skipped and one for a player on none of its rosters, only the third
\* reached the bulk insert and the table
C21_Witness ==
    /\ cur = "U2"
    /\ stage = "done"
    /\ Len(Data("U2").batter_stats) = 3
    /\ Data("U2").batter_stats[1].game_id \notin GamesResolved("U2")
    /\ Data("U2").batter_stats[3].player_id \notin PlayersResolved("U2")
    /\ log.bulk["batter_stats"].outcome = "returned"
    /\ Len(log.bulk["batter_stats"].data) = 1
    /\ Len(db.batter_stats.rows) >= 1

\* the batter_stats rows that reference a game unit u resolves
BatterRowsOf(u) ==
    {i \in 1..Len(db.batter_stats.rows) :
       \E k \in 1..Len(db.games.rows) :
          /\ db.games.rows[k].game_id = db.batter_stats.rows[i].game_id
          /\ db.games.rows[k].api_game_id \in GamesResolved(u)}

\* rows holds two rows for one (game, player)
DuplicateRows(rows) ==
    \E i, j \in 1..Len(rows) :
       /\ i < j
       /\ rows[i].game_id = rows[j].game_id
       /\ rows[i].player_id = rows[j].player_id

\* C22: a load whose batter batch was committed and whose pitcher batch then
\* raised makes the unit FAILED and leaves it in the intake, writes no
\* ledger record and no pitcher row, and leaves the batter rows in the
\* store, where every later step keeps them; a later load of a unit that
\* completes while the store holds batter rows of that unit adds no team,
\* player or game row and appends the unit's batter rows again, each a
\* duplicate (game, player) of a row already there.
C22_RetryDuplicatesBatterRows ==
    /\ [][(/\ pc = "load" /\ pc' # pc
           /\ log'.bulk["batter_stats"].outcome = "returned"
           /\ Len(log'.bulk["batter_stats"].data) >= 1
           /\ log'.bulk["pitcher_stats"].outcome = "raised")
            => (/\ status'[cur] = "FAILED"
                /\ pc' = "loop"
                /\ cur \in raw'
                /\ historical' = historical
                /\ db'.processed_files = db.processed_files
                /\ db'.pitcher_stats = db.pitcher_stats
                /\ GrewBy(db.batter_stats.rows, db'.batter_stats.rows,
                          log'.bulk["batter_stats"].data))]_vars
    /\ [][SubSeq(db'.batter_stats.rows, 1, Len(db.batter_stats.rows))
            = db.batter_stats.rows]_vars
    /\ [][(pc = "load" /\ pc' # pc /\ stage' = "done" /\ BatterRowsOf(cur) # {})
            => (/\ db'.teams.rows = db.teams.rows
                /\ db'.players.rows = db.players.rows
                /\ db'.games.rows = db.games.rows
                /\ Len(log'.bulk["batter_stats"].data) >= 1
                /\ GrewBy(db.batter_stats.rows, db'.batter_stats.rows,
                          log'.bulk["batter_stats"].data)
                /\ \A j \in 1..Len(log'.bulk["batter_stats"].data) :
                      \E i \in BatterRowsOf(cur) :
                         /\ db.batter_stats.rows[i].game_id
                              = log'.bulk["batter_stats"].data[j].game_id
                         /\ db.batter_stats.rows[i].player_id
                              = log'.bulk["batter_stats"].data[j].player_id
                /\ DuplicateRows(db'.batter_stats.rows))]_vars

\* U1 has been loaded twice: the first load committed its batter row and
\* failed at its pitcher batch (the store holds the pitcher rows of one load
\* only), the retry has completed; two teams, one player and one game as
\* after one load, and two batter rows for the same game and player
C22_Witness ==
    /\ cur = "U1"
    /\ pc = "record"
    /\ stage = "done"
    /\ faults = 1
    /\ ~Recorded("U1")
    /\ Len(db.teams.rows) = 2 /\ db.teams.seq = 4
    /\ Len(db.players.rows) = 1
    /\ Len(db.games.rows) = 1
    /\ Len(db.batter_stats.rows) = 2
    /\ DuplicateRows(db.batter_stats.rows)
    /\ Len(db.pitcher_stats.rows) = Len(Data("U1").pitcher_stats)

\* the internal ids of the rows of a games table that carry the external
\* id e
GameIds(tbl, e) == {tbl.rows[k].game_id : k \in GameRows(tbl, e)}

\* the external id of the team with the internal id of a teams table
ApiTeamId(tbl, id) ==
    {tbl.rows[k].api_team_id :
       k \in {x \in 1..Len(tbl.rows) : tbl.rows[x].team_id = id}}

\* C23: a load resolves the teams of a game through the teams the unit
\* itself lists, whatever the store holds.  In a load that gets past
\* resolution, a game with a team the unit does not list (in the store or
\* not) gets no row and no internal id, and no stat row added by the load
\* references that game; a game whose teams the unit lists has its row,
\* which references the rows of those two teams.
C23_TeamsResolvedPerUnit ==
    [][(pc = "load" /\ pc' # pc /\ stage' \notin {"open", "resolve"})
         => \A i \in 1..Len(Data(cur).games) :
              LET g == Data(cur).games[i]
              IN  IF TeamsMapped(cur, g)
                  THEN \E k \in GameRows(db'.games, g.game_id) :
                          /\ ApiTeamId(db'.teams, db'.games.rows[k].home_team_id)
                               = {g.home_team_id}
                          /\ ApiTeamId(db'.teams, db'.games.rows[k].away_team_id)
                               = {g.away_team_id}
                  ELSE /\ GameRows(db'.games, g.game_id)
                            = GameRows(db.games, g.game_id)
                       /\ \A t \in ret' \ ret :
                             ~(t[1] = "game" /\ t[2] = g.game_id)
                       /\ \A t \in StatTables :
                             \A j \in (Len(db[t].rows) + 1)..Len(db'[t].rows) :
                                db'[t].rows[j].game_id
                                  \notin GameIds(db'.games, g.game_id)]_vars

\* U2 has been loaded after U1 had stored team 10: game 101 of U2, whose
\* home team 10 is in the store but not among the teams of U2, has no row,
\* and the load added the one batter row of game 102 to that of U1
C23_Witness ==
    /\ cur = "U2"
    /\ stage = "done"
    /\ Recorded("U1")
    /\ TeamRows(Data("U2").games[1].home_team_id) # {}
    /\ Data("U2").games[1].home_team_id \notin TeamIds("U2")
    /\ GameRows(db.games, Data("U2").games[1].game_id) = {}
    /\ Len(db.batter_stats.rows) = 2
    /\ db.batter_stats.rows[2].game_id \in GameIds(db.games, 102)

\* C24: a unit whose overlap query hit a storage error is answered "no
\* overlap", whatever the ledger holds; the next step starts its load, the
\* load is run and, when it completes, followed by the record step, which
\* (the unit having no record yet and the insert meeting no error) appends
\* the range of the unit to the ledger.
C24_LedgerCheckFailsOpen ==
    /\ [][(pc = "loop" /\ pc' = "checked" /\ checkFailed')
            => (~overlap' /\ db' = db)]_vars
    /\ [][(pc = "checked" /\ pc' # pc /\ checkFailed)
            => (pc' = "load" /\ status'[cur] = "LOADING" /\ db' = db)]_vars
    /\ [][(pc = "load" /\ pc' # pc /\ checkFailed)
            => (stage' # "none" /\ (stage' = "done" => pc' = "record"))]_vars
    /\ [][(pc = "record" /\ pc' # pc /\ checkFailed /\ faults' = faults
             /\ ~Recorded(cur))
            => (/\ pc' = "move"
                /\ Len(Ledger') = Len(Ledger) + 1
                /\ SubSeq(Ledger', 1, Len(Ledger)) = Ledger
                /\ Ledger'[Len(Ledger')].file_name = FileName(cur)
                /\ Ledger'[Len(Ledger')].start_date = StartOf(cur)
                /\ Ledger'[Len(Ledger')].end_date = EndOf(cur))]_vars

\* the overlap query of a unit failed while the ledger held a range that
\* overlaps its own; the unit has been loaded and its range recorded next
\* to that one
C24_Witness ==
    /\ pc = "move"
    /\ checkFailed
    /\ stage = "done"
    /\ Ledger # <<>>
    /\ Ledger[Len(Ledger)].file_name = FileName(cur)
    /\ \E i \in 1..(Len(Ledger) - 1) :
          RangesOverlap(StartOf(cur), EndOf(cur),
                        Ledger[i].start_date, Ledger[i].end_date)

====
